---- MODULE Spec2Model ----
(***************************************************************************)
(* Model of the moon-phase crate (src/src/lib.rs): julian_date and         *)
(* MoonPhase::new.                                                         *)
(*                                                                         *)
(* The crate computes in f64.  The model keeps that arithmetic: an f64 is  *)
(* a record [s, m, e] standing for (-1)^s * m * 2^e with a 53-bit          *)
(* mantissa, and +, -, *, /, %, fract, trunc and round are the IEEE-754    *)
(* operations with round-to-nearest-even, computed on arbitrary-precision  *)
(* naturals (sequences of 15-bit limbs, least significant first).  The     *)
(* values the program reaches are finite and normal, so infinities, NaN    *)
(* and subnormals are not represented.  cos and sin are the only           *)
(* operations that are not bit-exact: they are evaluated in fixed point    *)
(* with 14 fractional bits (absolute error below 2^-10).                   *)
(***************************************************************************)
EXTENDS Integers, Sequences, FiniteSets, TLC

(***************************************************************************)
(* Arbitrary-precision naturals.                                           *)
(***************************************************************************)
LimbBits == 15
Base == 2^LimbBits

Pow2(k) == 2^k

Limb(a, i) == IF i <= Len(a) THEN a[i] ELSE 0

RECURSIVE BigStrip(_)
BigStrip(a) ==
    IF a = <<>> THEN a
    ELSE IF a[Len(a)] = 0 THEN BigStrip(SubSeq(a, 1, Len(a) - 1))
    ELSE a

RECURSIVE BigOfNat(_)
BigOfNat(n) == IF n = 0 THEN <<>> ELSE <<n % Base>> \o BigOfNat(n \div Base)

RECURSIVE BigToNat(_)
BigToNat(a) == IF a = <<>> THEN 0 ELSE Head(a) + Base * BigToNat(Tail(a))

RECURSIVE BigCmpFrom(_, _, _)
BigCmpFrom(a, b, i) ==
    IF i = 0 THEN 0
    ELSE IF a[i] < b[i] THEN -1
    ELSE IF a[i] > b[i] THEN 1
    ELSE BigCmpFrom(a, b, i - 1)

\* -1, 0 or 1 as a < b, a = b, a > b.
BigCmp(a, b) ==
    IF Len(a) < Len(b) THEN -1
    ELSE IF Len(a) > Len(b) THEN 1
    ELSE BigCmpFrom(a, b, Len(a))

RECURSIVE BigAddFrom(_, _, _, _)
BigAddFrom(a, b, i, c) ==
    IF i > Len(a) /\ i > Len(b) THEN (IF c = 0 THEN <<>> ELSE <<c>>)
    ELSE LET t == Limb(a, i) + Limb(b, i) + c
         IN  <<t % Base>> \o BigAddFrom(a, b, i + 1, t \div Base)

BigAdd(a, b) == BigAddFrom(a, b, 1, 0)

RECURSIVE BigSubFrom(_, _, _, _)
BigSubFrom(a, b, i, c) ==
    IF i > Len(a) THEN <<>>
    ELSE LET t == a[i] - Limb(b, i) - c
         IN  IF t < 0 THEN <<t + Base>> \o BigSubFrom(a, b, i + 1, 1)
             ELSE <<t>> \o BigSubFrom(a, b, i + 1, 0)

\* a - b for a >= b.
BigSub(a, b) == BigStrip(BigSubFrom(a, b, 1, 0))

RECURSIVE BigMulSmallFrom(_, _, _, _)
BigMulSmallFrom(a, k, i, c) ==
    IF i > Len(a) THEN (IF c = 0 THEN <<>> ELSE <<c>>)
    ELSE LET t == a[i] * k + c
         IN  <<t % Base>> \o BigMulSmallFrom(a, k, i + 1, t \div Base)

\* a * k for 0 <= k < Base.
BigMulSmall(a, k) == IF k = 0 THEN <<>> ELSE BigMulSmallFrom(a, k, 1, 0)

BigShiftLimbs(a, n) ==
    IF a = <<>> THEN a ELSE [i \in 1..n |-> 0] \o a

RECURSIVE BigMul(_, _)
BigMul(a, b) ==
    IF b = <<>> \/ a = <<>> THEN <<>>
    ELSE BigAdd(BigMulSmall(a, Head(b)), BigShiftLimbs(BigMul(a, Tail(b)), 1))

\* a * 2^k.
BigShl(a, k) ==
    BigShiftLimbs(BigMulSmall(a, Pow2(k % LimbBits)), k \div LimbBits)

RECURSIVE BigDivSmallFrom(_, _, _, _)
BigDivSmallFrom(a, d, i, r) ==
    IF i = 0 THEN <<>>
    ELSE LET t == r * Base + a[i]
         IN  BigDivSmallFrom(a, d, i - 1, t % d) \o <<t \div d>>

\* floor(a / d) for 0 < d <= Base.
BigDivSmall(a, d) == BigStrip(BigDivSmallFrom(a, d, Len(a), 0))

\* floor(a / 2^k).
BigShr(a, k) ==
    IF k \div LimbBits >= Len(a) THEN <<>>
    ELSE BigDivSmall(SubSeq(a, k \div LimbBits + 1, Len(a)), Pow2(k % LimbBits))

\* Bit k (from 0) of a.
BigBit(a, k) == (Limb(a, k \div LimbBits + 1) \div Pow2(k % LimbBits)) % 2

\* Whether the k low bits of a are all 0.
BigLowZero(a, k) ==
    /\ \A i \in 1..(k \div LimbBits) : Limb(a, i) = 0
    /\ Limb(a, k \div LimbBits + 1) % Pow2(k % LimbBits) = 0

RECURSIVE NatBitLen(_)
NatBitLen(n) == IF n = 0 THEN 0 ELSE 1 + NatBitLen(n \div 2)

BigBitLen(a) ==
    IF a = <<>> THEN 0 ELSE (Len(a) - 1) * LimbBits + NatBitLen(a[Len(a)])

\* Long division, one bit of the dividend at a time from the top: q and r
\* are the quotient and remainder of the bits above bit k, and the bits k
\* down to lo are read.  BigDivStep takes r2 = 2r + bit k.
RECURSIVE BigDivBits(_, _, _, _, _, _)
BigDivStep(n, d, k, lo, q, r2) ==
    IF BigCmp(r2, d) >= 0
    THEN BigDivBits(n, d, k - 1, lo, BigAddFrom(q, q, 1, 1), BigSub(r2, d))
    ELSE BigDivBits(n, d, k - 1, lo, BigAddFrom(q, q, 1, 0), r2)

BigDivBits(n, d, k, lo, q, r) ==
    IF k < lo THEN [q |-> q, r |-> r]
    ELSE BigDivStep(n, d, k, lo, q, BigAddFrom(r, r, 1, BigBit(n, k)))

\* The same, one limb of bits at a time.
RECURSIVE BigDivLimbs(_, _, _, _)
BigDivLimbs(n, d, k, qr) ==
    IF k < 0 THEN qr
    ELSE IF k >= LimbBits
    THEN BigDivLimbs(n, d, k - LimbBits,
                     BigDivBits(n, d, k, k - LimbBits + 1, qr.q, qr.r))
    ELSE BigDivBits(n, d, k, 0, qr.q, qr.r)

\* [q |-> floor(n / d), r |-> n mod d] for d > 0.  The bits of n above the
\* length of d are smaller than d and start as the remainder.
BigDivMod(n, d) ==
    IF BigBitLen(n) < BigBitLen(d) THEN [q |-> <<>>, r |-> n]
    ELSE BigDivLimbs(n, d, BigBitLen(n) - BigBitLen(d),
                     [q |-> <<>>, r |-> BigShr(n, BigBitLen(n) - BigBitLen(d) + 1)])

(***************************************************************************)
(* f64: [s |-> sign bit, m |-> mantissa, e |-> exponent], standing for     *)
(* (-1)^s * m * 2^e.  A nonzero value has 2^52 <= m < 2^53; zero is        *)
(* m = <<>>, e = 0 and keeps its sign, as in IEEE-754.                     *)
(***************************************************************************)
MantBits == 53

F64Zero(s) == [s |-> s, m |-> <<>>, e |-> 0]

F64IsZero(x) == x.m = <<>>

\* m1 * 2^e with m1 <= 2^53: a mantissa that rounded up to 2^53 is
\* renormalised.
F64Carry(s, m1, e) ==
    IF BigBitLen(m1) > MantBits
    THEN [s |-> s, m |-> BigShr(m1, 1), e |-> e + 1]
    ELSE [s |-> s, m |-> m1, e |-> e]

\* Round to nearest, ties to even: m0 is the kept mantissa, guard the first
\* dropped bit, rest whether anything lower is set.
F64Ties(s, m0, e, guard, rest) ==
    IF guard = 1 /\ (rest \/ BigBit(m0, 0) = 1)
    THEN F64Carry(s, BigAddFrom(m0, <<>>, 1, 1), e)
    ELSE [s |-> s, m |-> m0, e |-> e]

\* F64Round for q of n bits.
F64RoundLen(s, q, e, sticky, n) ==
    IF n = 0 THEN F64Zero(s)
    ELSE IF n <= MantBits
    THEN [s |-> s, m |-> BigShl(q, MantBits - n), e |-> e - (MantBits - n)]
    ELSE F64Ties(s, BigShr(q, n - MantBits), e + (n - MantBits),
                 BigBit(q, n - MantBits - 1),
                 sticky \/ ~BigLowZero(q, n - MantBits - 1))

\* The f64 nearest to (-1)^s * (q + f) * 2^e, ties to even, where q is a
\* natural and 0 <= f < 1 is known only as sticky = (f # 0).  With sticky
\* set, q must have at least MantBits + 2 bits.
F64Round(s, q, e, sticky) == F64RoundLen(s, q, e, sticky, BigBitLen(q))

Abs(n) == IF n < 0 THEN -n ELSE n

\* Integer to f64 (`as f64`), exact below 2^53.
F64OfInt(n) == F64Round(IF n < 0 THEN 1 ELSE 0, BigOfNat(Abs(n)), 0, FALSE)

F64Neg(x) == [x EXCEPT !.s = 1 - x.s]

\* -1, 0, 1 as |x| < |y|, |x| = |y|, |x| > |y|.
F64CmpMag(x, y) ==
    IF F64IsZero(x) THEN (IF F64IsZero(y) THEN 0 ELSE -1)
    ELSE IF F64IsZero(y) THEN 1
    ELSE IF x.e < y.e THEN -1
    ELSE IF x.e > y.e THEN 1
    ELSE BigCmp(x.m, y.m)

\* x < y.
F64Lt(x, y) ==
    IF x.s = 1 /\ y.s = 0 THEN ~(F64IsZero(x) /\ F64IsZero(y))
    ELSE IF x.s = 0 /\ y.s = 1 THEN FALSE
    ELSE IF x.s = 0 THEN F64CmpMag(x, y) < 0
    ELSE F64CmpMag(x, y) > 0

\* x == y (IEEE: -0.0 == 0.0).
F64Eq(x, y) == (F64IsZero(x) /\ F64IsZero(y)) \/ x = y

F64Le(x, y) == F64Lt(x, y) \/ F64Eq(x, y)

\* (-1)^sx * ax + (-1)^sy * ay, times 2^e, where c = BigCmp(ax, ay).
\* Equal magnitudes of opposite sign cancel to +0.
F64AddAligned(sx, ax, sy, ay, e, c) ==
    F64Round(IF sx = sy \/ c > 0 THEN sx ELSE IF c < 0 THEN sy ELSE 0,
             IF sx = sy THEN BigAdd(ax, ay)
             ELSE IF c > 0 THEN BigSub(ax, ay)
             ELSE BigSub(ay, ax),
             e, FALSE)

F64AddShifted(sx, ax, sy, ay, e) ==
    F64AddAligned(sx, ax, sy, ay, e, BigCmp(ax, ay))

Min(a, b) == IF a < b THEN a ELSE b

\* x + y.
F64Add(x, y) ==
    IF F64IsZero(x) /\ F64IsZero(y)
    THEN F64Zero(IF x.s = 1 /\ y.s = 1 THEN 1 ELSE 0)
    ELSE IF F64IsZero(x) THEN y
    ELSE IF F64IsZero(y) THEN x
    ELSE F64AddShifted(x.s, BigShl(x.m, x.e - Min(x.e, y.e)),
                       y.s, BigShl(y.m, y.e - Min(x.e, y.e)), Min(x.e, y.e))

\* x - y.
F64Sub(x, y) == F64Add(x, F64Neg(y))

\* x * y.
F64Mul(x, y) ==
    IF F64IsZero(x) \/ F64IsZero(y) THEN F64Zero((x.s + y.s) % 2)
    ELSE F64Round((x.s + y.s) % 2, BigMul(x.m, y.m), x.e + y.e, FALSE)

\* F64Quot with the shift sh that gives the quotient MantBits + 2 or
\* MantBits + 3 bits.
F64QuotRound(s, qr, e) == F64Round(s, qr.q, e, qr.r # <<>>)

F64QuotShift(s, n, d, e, sh) ==
    F64QuotRound(s,
                 IF sh >= 0 THEN BigDivMod(BigShl(n, sh), d)
                 ELSE BigDivMod(n, BigShl(d, -sh)),
                 e - sh)

\* The f64 nearest to (-1)^s * (n / d) * 2^e for naturals n, d > 0.
F64Quot(s, n, d, e) ==
    F64QuotShift(s, n, d, e, (MantBits + 2) - (BigBitLen(n) - BigBitLen(d)))

\* x / y for y # 0.
F64Div(x, y) ==
    IF F64IsZero(x) THEN F64Zero((x.s + y.s) % 2)
    ELSE F64Quot((x.s + y.s) % 2, x.m, y.m, x.e - y.e)

\* f64::trunc: the integer part, rounding toward zero.
F64Trunc(x) ==
    IF x.e >= 0 THEN x
    ELSE F64Round(x.s, BigShr(x.m, -x.e), 0, FALSE)

\* f64::fract: `self - self.trunc()`.
F64Fract(x) == F64Sub(x, F64Trunc(x))

\* f64::round: the nearest integer, halves away from zero.
F64RoundInt(x) ==
    IF x.e >= 0 THEN x
    ELSE F64Round(x.s,
                  BigAddFrom(BigShr(x.m, -x.e), <<>>, 1, BigBit(x.m, -x.e - 1)),
                  0, FALSE)

\* x % y for aligned magnitudes ax, ay (times 2^e).
F64RemAligned(x, ax, ay, e) ==
    IF BigCmp(ax, ay) < 0 THEN x
    ELSE F64Round(x.s, BigDivMod(ax, ay).r, e, FALSE)

\* x % y for y # 0 (fmod): exact, with the sign of x.
F64Rem(x, y) ==
    IF F64IsZero(x) THEN x
    ELSE F64RemAligned(x, BigShl(x.m, x.e - Min(x.e, y.e)),
                       BigShl(y.m, y.e - Min(x.e, y.e)), Min(x.e, y.e))

\* floor(|x|) as an integer, for |x| < 2^30.
F64Floor(x) ==
    IF F64IsZero(x) THEN 0
    ELSE IF x.e >= 0 THEN BigToNat(BigShl(x.m, x.e))
    ELSE BigToNat(BigShr(x.m, -x.e))

RECURSIVE BigOfGroups(_, _)
BigOfGroups(g, acc) ==
    IF g = <<>> THEN acc
    ELSE BigOfGroups(Tail(g), BigAdd(BigMulSmall(acc, 1000), BigOfNat(Head(g))))

RECURSIVE BigPow10(_)
BigPow10(k) == IF k = 0 THEN <<1>> ELSE BigMulSmall(BigPow10(k - 1), 10)

\* The f64 a decimal literal denotes: the digits, written in groups of
\* three (29.530588853 is <<29, 530, 588, 853>> with 9 decimals), divided by
\* 10^decimals and rounded to nearest.
F64Lit(groups, decimals) ==
    F64Quot(0, BigOfGroups(groups, <<>>), BigPow10(decimals), 0)

(***************************************************************************)
(* cos and sin.  The argument is cut to fixed point with FixBits           *)
(* fractional bits, reduced to [0, pi/2] by the symmetries of the cosine,  *)
(* and the Taylor polynomial of degree 8 is evaluated there.               *)
(***************************************************************************)
FixBits == 14
FixOne == 2^FixBits

\* pi/2 in fixed point: round(1.5707963268 * 2^14).
FixHalfPi == 25736

FixMul(a, b) == (a * b) \div FixOne

\* cos(y) for 0 <= y <= pi/2.
FixCosQuadrant(y) ==
    LET y2 == FixMul(y, y)
        t4 == FixOne - FixMul(y2, FixOne) \div 56
        t3 == FixOne - FixMul(y2, t4) \div 30
        t2 == FixOne - FixMul(y2, t3) \div 12
    IN  FixOne - FixMul(y2, t2) \div 2

\* cos(t) for t >= 0.
FixCos(t) ==
    LET r == t % (4 * FixHalfPi)
        h == IF r > 2 * FixHalfPi THEN 4 * FixHalfPi - r ELSE r
    IN  IF h > FixHalfPi THEN -FixCosQuadrant(2 * FixHalfPi - h)
        ELSE FixCosQuadrant(h)

\* floor(|x| * 2^FixBits), with the sign of x.
FixOfF64(x) ==
    IF x.s = 1 THEN -F64Floor([x EXCEPT !.e = x.e + FixBits])
    ELSE F64Floor([x EXCEPT !.e = x.e + FixBits])

F64OfFix(c) ==
    IF c < 0 THEN F64Round(1, BigOfNat(-c), -FixBits, FALSE)
    ELSE F64Round(0, BigOfNat(c), -FixBits, FALSE)

\* f64::cos.
F64Cos(x) == F64OfFix(FixCos(Abs(FixOfF64(x))))

\* f64::sin: sin(x) = cos(x - pi/2).
F64Sin(x) == F64OfFix(FixCos(Abs(FixOfF64(x) - FixHalfPi)))

(***************************************************************************)
(* The constants of the crate.                                             *)
(***************************************************************************)
\* Mutant of MOON_SYNODIC_OFFSET: another new moon epoch, 2451550.1.
MOON_SYNODIC_OFFSET_OTHER == F64Lit(<<2, 451, 550, 100>>, 3)

MOON_SYNODIC_PERIOD   == F64Lit(<<29, 530, 588, 853>>, 9)
MOON_SYNODIC_OFFSET   == F64Lit(<<2, 451, 550, 260>>, 3)
MOON_DISTANCE_PERIOD  == F64Lit(<<27, 554, 549, 880>>, 9)
MOON_DISTANCE_OFFSET  == F64Lit(<<2, 451, 562, 200>>, 3)
MOON_LATITUDE_PERIOD  == F64Lit(<<27, 212, 220, 817>>, 9)
MOON_LATITUDE_OFFSET  == F64Lit(<<2, 451, 565, 200>>, 3)
MOON_LONGITUDE_PERIOD == F64Lit(<<27, 321, 582, 241>>, 9)
MOON_LONGITUDE_OFFSET == F64Lit(<<2, 451, 555, 800>>, 3)

\* std::f64::consts::TAU = 6.28318530717958647692528676655900577.
TAU == F64Lit(<<6, 283, 185, 307, 179, 586, 476, 925, 286, 766, 559>>, 30)

PHASE_NAMES ==
    << "New", "Waxing Crescent", "First Quarter", "Waxing Gibbous",
       "Full", "Waning Gibbous", "Last Quarter", "Waning Crescent" >>

ZODIAC_NAMES ==
    << "Pisces", "Aries", "Taurus", "Gemini", "Cancer", "Leo",
       "Virgo", "Libra", "Scorpio", "Sagittarius", "Capricorn", "Aquarius" >>

ZODIAC_ANGLES ==
    << F64Lit(<<33, 180>>, 3),  F64Lit(<<51, 160>>, 3),  F64Lit(<<93, 440>>, 3),
       F64Lit(<<119, 480>>, 3), F64Lit(<<135, 300>>, 3), F64Lit(<<173, 340>>, 3),
       F64Lit(<<224, 170>>, 3), F64Lit(<<242, 570>>, 3), F64Lit(<<271, 260>>, 3),
       F64Lit(<<302, 490>>, 3), F64Lit(<<311, 720>>, 3), F64Lit(<<348, 580>>, 3) >>

(***************************************************************************)
(* std::time.  A SystemTime is [sec, nsec]: sec whole seconds from the     *)
(* Unix epoch (negative before it) plus nsec nanoseconds, 0 <= nsec < 1e9. *)
(* A Duration is [secs, nanos], never negative.                            *)
(***************************************************************************)
NANOS_PER_SEC == 1000000000

UNIX_EPOCH == [sec |-> 0, nsec |-> 0]

TimeLe(a, b) == a.sec < b.sec \/ (a.sec = b.sec /\ a.nsec <= b.nsec)

\* a - b for b <= a.
TimeSub(a, b) ==
    IF a.nsec >= b.nsec
    THEN [secs |-> a.sec - b.sec, nanos |-> a.nsec - b.nsec]
    ELSE [secs |-> a.sec - b.sec - 1, nanos |-> a.nsec + NANOS_PER_SEC - b.nsec]

\* SystemTime + Duration.
TimeAdd(a, d) ==
    IF a.nsec + d.nanos >= NANOS_PER_SEC
    THEN [sec |-> a.sec + d.secs + 1, nsec |-> a.nsec + d.nanos - NANOS_PER_SEC]
    ELSE [sec |-> a.sec + d.secs, nsec |-> a.nsec + d.nanos]

\* SystemTime::duration_since: Ok(self - earlier) when earlier <= self,
\* otherwise Err carrying earlier - self.
duration_since(self, earlier) ==
    IF TimeLe(earlier, self)
    THEN [ok |-> TRUE, duration |-> TimeSub(self, earlier)]
    ELSE [ok |-> FALSE, duration |-> TimeSub(earlier, self)]

\* Duration::as_secs_f64: secs as f64 + nanos as f64 / 1e9.
as_secs_f64(d) ==
    F64Add(F64OfInt(d.secs), F64Div(F64OfInt(d.nanos), F64OfInt(NANOS_PER_SEC)))

(***************************************************************************)
(* The crate.                                                              *)
(***************************************************************************)
\* Mutant of match_secs: the Err branch forgets the sign.
match_secs_unsigned(r) == as_secs_f64(r.duration)

\* The match on duration_since: the seconds since the epoch, negative
\* for an instant before it.
match_secs(r) ==
    IF r.ok THEN as_secs_f64(r.duration)
    ELSE F64Mul(F64OfInt(-1), as_secs_f64(r.duration))

julian_date(time) ==
    F64Add(F64Div(match_secs(duration_since(time, UNIX_EPOCH)), F64OfInt(86400)),
           F64Lit(<<2, 440, 587, 500>>, 3))

\* Mutant of F64AsUsize: the magnitude instead of saturation at 0.
F64AsUsizeMagnitude(x) == F64Floor(x)

\* `as usize` on an f64: negative values saturate to 0.  (The upper
\* saturation at usize::MAX is out of reach: the operand is round(phase * 8)
\* with |phase| < 1.)
F64AsUsize(x) == IF x.s = 1 THEN 0 ELSE F64Floor(x)

\* Mutant of PhaseNameIndex: no % 8.
PhaseNameIndexNoWrap(phase) ==
    F64AsUsize(F64RoundInt(F64Mul(phase, F64OfInt(8))))

\* The index into PHASE_NAMES: (phase * 8.).round() as usize % 8.
PhaseNameIndex(phase) ==
    F64AsUsize(F64RoundInt(F64Mul(phase, F64OfInt(8)))) % 8

\* What an out-of-bounds index does: the call panics and returns nothing.
PANIC == "panic: index out of bounds"

\* names[i], bounds-checked as a Rust slice index is.
Index(names, i) == IF i < Len(names) THEN names[i + 1] ELSE PANIC

\* ((j_date - offset) / period).fract()
CyclePhase(j_date, offset, period) ==
    F64Fract(F64Div(F64Sub(j_date, offset), period))

\* Mutant of ZodiacFind: `longitude <= *angle`.
RECURSIVE ZodiacFindInclusive(_, _)
ZodiacFindInclusive(longitude, i) ==
    IF i > Len(ZODIAC_NAMES) THEN "None"
    ELSE IF F64Le(longitude, ZODIAC_ANGLES[i]) THEN ZODIAC_NAMES[i]
    ELSE ZodiacFindInclusive(longitude, i + 1)

\* The find_map over ZODIAC_ANGLES zipped with ZODIAC_NAMES, from entry i.
RECURSIVE ZodiacFind(_, _)
ZodiacFind(longitude, i) ==
    IF i > Len(ZODIAC_NAMES) THEN "None"
    ELSE IF F64Lt(longitude, ZODIAC_ANGLES[i]) THEN ZODIAC_NAMES[i]
    ELSE ZodiacFind(longitude, i + 1)

\* Option::unwrap_or_else.
unwrap_or_else(found, default) == IF found = "None" THEN default ELSE found

\* find_map(..).unwrap_or_else(|| ZODIAC_NAMES[0])
ZodiacName(longitude) ==
    unwrap_or_else(ZodiacFind(longitude, 1), ZODIAC_NAMES[1])

(***************************************************************************)
(* MoonPhase::new, in the order of its let bindings.  Each operator below  *)
(* takes the values bound so far and binds the next ones.                  *)
(***************************************************************************)

\* The struct literal, with zodiac_name computed from longitude.
MoonPhase(j_date, phase, age, fraction, distance, latitude, longitude, phase_name) ==
    [ j_date      |-> j_date,
      phase       |-> phase,
      age         |-> age,
      fraction    |-> fraction,
      distance    |-> distance,
      latitude    |-> latitude,
      longitude   |-> longitude,
      phase_name  |-> phase_name,
      zodiac_name |-> ZodiacName(longitude) ]

\* age, fraction, phase_name, distance, latitude and longitude.
NewFromAngles(j_date, phase, lat_phase, long_phase, distance_phase_tau, phase_tau, phase_distance_tau_difference) ==
    MoonPhase(
        j_date,
        phase,
        F64Mul(phase, MOON_SYNODIC_PERIOD),
        F64Div(F64Cos(F64Sub(F64OfInt(1), F64Mul(TAU, phase))), F64OfInt(2)),
        F64Sub(F64Sub(F64Sub(F64Lit(<<60, 400>>, 3),
                             F64Mul(F64Lit(<<3, 300>>, 3),
                                    F64Cos(distance_phase_tau))),
                      F64Mul(F64Lit(<<0, 600>>, 3),
                             F64Cos(phase_distance_tau_difference))),
               F64Mul(F64Lit(<<0, 500>>, 3), F64Cos(phase_tau))),
        F64Mul(F64Lit(<<5, 100>>, 3), F64Sin(F64Mul(TAU, lat_phase))),
        F64Rem(F64Add(F64Add(F64Add(F64Mul(F64OfInt(360), long_phase),
                                    F64Mul(F64Lit(<<6, 300>>, 3),
                                           F64Sin(distance_phase_tau))),
                             F64Mul(F64Lit(<<1, 300>>, 3),
                                    F64Sin(phase_distance_tau_difference))),
                      F64Mul(F64Lit(<<0, 700>>, 3), F64Sin(phase_tau))),
               F64OfInt(360)),
        Index(PHASE_NAMES, PhaseNameIndex(phase)))

\* distance_phase_tau, phase_tau and phase_distance_tau_difference.
NewFromTaus(j_date, phase, lat_phase, long_phase, distance_phase_tau, phase_tau) ==
    NewFromAngles(j_date, phase, lat_phase, long_phase, distance_phase_tau,
                  phase_tau, F64Sub(phase_tau, distance_phase_tau))

NewFromPhases(j_date, phase, distance_phase, lat_phase, long_phase) ==
    NewFromTaus(j_date, phase, lat_phase, long_phase,
                F64Mul(TAU, distance_phase),
                F64Mul(F64Mul(F64OfInt(2), TAU), phase))

\* phase, distance_phase, lat_phase and long_phase.
NewFromJulian(j_date) ==
    NewFromPhases(
        j_date,
        CyclePhase(j_date, MOON_SYNODIC_OFFSET, MOON_SYNODIC_PERIOD),
        CyclePhase(j_date, MOON_DISTANCE_OFFSET, MOON_DISTANCE_PERIOD),
        CyclePhase(j_date, MOON_LATITUDE_OFFSET, MOON_LATITUDE_PERIOD),
        CyclePhase(j_date, MOON_LONGITUDE_OFFSET, MOON_LONGITUDE_PERIOD))

\* MoonPhase::new.
MoonPhaseNew(time) == NewFromJulian(julian_date(time))

(***************************************************************************)
(* The state machine: a caller that takes snapshots at instants of its     *)
(* choice.  time is the instant of the latest call, snap what the call     *)
(* returned (Unwound if it panicked), calls the number of calls after the  *)
(* first.                                                                  *)
(***************************************************************************)
VARIABLES time, snap, calls

vars == <<time, snap, calls>>

\* The number of calls after the first.
MaxCalls == 4

\* The instant whose Julian date is MOON_SYNODIC_OFFSET:
\* (2451550.26 - 2440587.5) * 86400 = 947182464 s after the Unix epoch.
SynodicEpoch == [sec |-> 947182464, nsec |-> 0]

\* One synodic period, 29.530588853 * 86400 s = 2551442.8768992 s.
SynodicStep == [secs |-> 2551442, nanos |-> 876899200]

\* Five eighths of a synodic period, 1594651.798062 s.
FiveEighthsStep == [secs |-> 1594651, nanos |-> 798062000]

DayStep == [secs |-> 86400, nanos |-> 0]

Steps == {SynodicStep, FiveEighthsStep, DayStep}

\* The first instants: two days before the Unix epoch; 86400.75 s before
\* it; one synodic period before the synodic epoch; 1/32 of a period
\* (79732.5899031 s) before the synodic epoch; 2000-02-08 15:04:24 UTC, after
\* every reference epoch of the crate.
Starts ==
    { [sec |-> -172800, nsec |-> 0],
      [sec |-> -86401, nsec |-> 250000000],
      [sec |-> 944631021, nsec |-> 123100800],
      [sec |-> 947102731, nsec |-> 410096900],
      [sec |-> 950022264, nsec |-> 0] }

\* A call MoonPhase::new(t), with what the caller is left with.
Unwound == [panicked |-> PANIC]

Returned(r) == IF r.phase_name = PANIC THEN Unwound ELSE r

Call(t) == Returned(MoonPhaseNew(t))

Init ==
    /\ time \in Starts
    /\ snap = Call(time)
    /\ calls = 0

New(t) ==
    /\ calls < MaxCalls
    /\ time' = t
    /\ snap' = Call(t)
    /\ calls' = calls + 1

Next == \E d \in Steps : New(TimeAdd(time, d))

Spec == Init /\ [][Next]_vars

(***************************************************************************)
(* The zodiac resolver on its own: longitudes drawn from a grid, and the   *)
(* resolver (lines 103 to 113 of MoonPhase::new) applied to each.  snap    *)
(* holds the two fields involved.                                          *)
(***************************************************************************)

\* The grid reaches 2.5 * MaxGrid degrees either side of 0.
MaxGrid == 148

\* The table's boundaries, in hundredths of a degree.
BoundaryHundredths ==
    { 3318, 5116, 9344, 11948, 13530, 17334, 22417, 24257, 27126, 30249,
      31172, 34858 }

Hundredths ==
    {b + o : b \in BoundaryHundredths, o \in {-1, 0, 1}}
        \cup {0, 3350, 34900}
        \cup {250 * k : k \in -MaxGrid..MaxGrid}

\* h / 100 as an f64: the value the decimal literal denotes.
F64Centi(h) == F64Div(F64OfInt(h), F64OfInt(100))

ZodiacInit ==
    /\ time = UNIX_EPOCH
    /\ calls = 0
    /\ snap \in {[longitude |-> F64Centi(h), zodiac_name |-> "unresolved"] :
                    h \in Hundredths}

Resolve ==
    /\ snap.zodiac_name = "unresolved"
    /\ snap' = [snap EXCEPT !.zodiac_name = ZodiacName(snap.longitude)]
    /\ UNCHANGED <<time, calls>>

ZodiacNext == Resolve

ZodiacSpec == ZodiacInit /\ [][ZodiacNext]_vars

(***************************************************************************)
(* The claims.                                                             *)
(***************************************************************************)
F64Abs(x) == [x EXCEPT !.s = 0]

\* |a - b| <= tol.
F64Within(a, b, tol) == F64Le(F64Abs(F64Sub(a, b)), tol)

\* The integer an integer-valued f64 holds.
F64ToInt(x) == IF x.s = 1 THEN -F64Floor(x) ELSE F64Floor(x)

SetOf(seq) == {seq[i] : i \in 1..Len(seq)}

BeforeSynodicEpoch == F64Le(snap.j_date, MOON_SYNODIC_OFFSET)

\* C1: for every instant, also one before the synodic reference epoch,
\* 0 <= phase < 1.
C1_PhaseInUnitInterval ==
    /\ F64Le(F64OfInt(0), snap.phase)
    /\ F64Lt(snap.phase, F64OfInt(1))

\* C2: for every instant, 0 <= longitude < 360.
C2_LongitudeInRange ==
    /\ F64Le(F64OfInt(0), snap.longitude)
    /\ F64Lt(snap.longitude, F64OfInt(360))

\* The cosine is modelled to within 2^-10; 2^-8 leaves room for the
\* operations around it.
FractionTolerance == F64Quot(0, <<1>>, <<256>>, 0)

\* C3: the illuminated fraction is (1 - cos(2 pi phase)) / 2 (to within
\* FractionTolerance), 0 at phase 0, 1 at phase 0.5, and within [0, 1].
C3_IlluminatedFraction ==
    /\ F64Within(snap.fraction,
                 F64Div(F64Sub(F64OfInt(1), F64Cos(F64Mul(TAU, snap.phase))),
                        F64OfInt(2)),
                 FractionTolerance)
    /\ F64IsZero(snap.phase) => F64IsZero(snap.fraction)
    /\ snap.phase = F64Lit(<<0, 500>>, 3) => snap.fraction = F64OfInt(1)
    /\ F64Le(F64OfInt(0), snap.fraction)
    /\ F64Le(snap.fraction, F64OfInt(1))

\* C4: phase_name is the entry of PHASE_NAMES at index
\* round(phase * 8) mod 8, halves rounded away from zero.
C4_PhaseNameByRoundMod8 ==
    snap.phase_name =
        PHASE_NAMES[(F64ToInt(F64RoundInt(F64Mul(snap.phase, F64OfInt(8)))) % 8) + 1]

\* The entries of the table whose boundary is strictly greater than l.
Exceeding(l) == {i \in 1..Len(ZODIAC_ANGLES) : F64Lt(l, ZODIAC_ANGLES[i])}

Least(S) == CHOOSE i \in S : \A j \in S : i <= j

Resolved == snap.zodiac_name # "unresolved"

\* C5: zodiac_name is the name paired with the first boundary strictly
\* greater than the longitude, and Pisces when no boundary exceeds it, which
\* is when the longitude is at least 348.58; a longitude equal to a boundary
\* belongs to the next entry; 0 gives Pisces, 33.5 Aries, 349 Pisces.
C5_ZodiacFirstExceeding ==
    Resolved =>
        /\ Exceeding(snap.longitude) # {} =>
               snap.zodiac_name = ZODIAC_NAMES[Least(Exceeding(snap.longitude))]
        /\ Exceeding(snap.longitude) = {} => snap.zodiac_name = "Pisces"
        /\ Exceeding(snap.longitude) = {} <=>
               F64Le(F64Lit(<<348, 580>>, 3), snap.longitude)
        /\ \A i \in 1..(Len(ZODIAC_ANGLES) - 1) :
               snap.longitude = ZODIAC_ANGLES[i] =>
                   snap.zodiac_name = ZODIAC_NAMES[i + 1]
        /\ snap.longitude = F64OfInt(0) => snap.zodiac_name = "Pisces"
        /\ snap.longitude = F64Lit(<<33, 500>>, 3) => snap.zodiac_name = "Aries"
        /\ snap.longitude = F64OfInt(349) => snap.zodiac_name = "Pisces"

\* A longitude equal to the first boundary, 33.18, resolved to Aries.
C5_Witness ==
    /\ Resolved
    /\ snap.longitude = F64Lit(<<33, 180>>, 3)
    /\ snap.zodiac_name = "Aries"

\* Nanoseconds in a day, and the nanoseconds from Julian date 0 to `t`:
\* 2440587.5 * 86400 = 210866760000 s lie between Julian date 0 and the
\* Unix epoch.
NanosPerDay == BigMul(BigOfNat(86400), BigPow10(9))

NanosSinceJulianZero(t) ==
    BigAdd(BigMul(IF t.sec >= 0
                  THEN BigAdd(BigOfGroups(<<210, 866, 760, 0>>, <<>>), BigOfNat(t.sec))
                  ELSE BigSub(BigOfGroups(<<210, 866, 760, 0>>, <<>>), BigOfNat(-t.sec)),
                  BigPow10(9)),
           BigOfNat(t.nsec))

BigDist(a, b) == IF BigCmp(a, b) >= 0 THEN BigSub(a, b) ELSE BigSub(b, a)

\* C6: j_date is the signed seconds since the Unix epoch / 86400 +
\* 2440587.5.  In exact arithmetic, in units of 2^e nanoseconds-per-day:
\* the f64 result m * 2^e is within one unit in the last place of the exact
\* value; the epoch maps to 2440587.5, and an instant a whole number d of
\* days from the epoch (d < 0 before it) to 2440587.5 + d exactly.
C6_JulianDate ==
    /\ snap.j_date.s = 0 /\ snap.j_date.e < 0
    /\ BigCmp(BigDist(BigMul(snap.j_date.m, NanosPerDay),
                      BigShl(NanosSinceJulianZero(time), -snap.j_date.e)),
              NanosPerDay) <= 0
    /\ time = UNIX_EPOCH => snap.j_date = F64Lit(<<2, 440, 587, 500>>, 3)
    /\ (time.nsec = 0 /\ time.sec % 86400 = 0) =>
           snap.j_date = F64Add(F64Lit(<<2, 440, 587, 500>>, 3),
                                F64OfInt(time.sec \div 86400))

\* One day before the Unix epoch, mapped to 2440586.5.
C6_Witness ==
    /\ time = [sec |-> -86400, nsec |-> 0]
    /\ snap.j_date = F64Lit(<<2, 440, 586, 500>>, 3)

RECURSIVE PeriodsAfterEpoch(_)
PeriodsAfterEpoch(k) ==
    IF k = 0 THEN SynodicEpoch ELSE TimeAdd(PeriodsAfterEpoch(k - 1), SynodicStep)

AtWholePeriods == \E k \in 0..(MaxCalls + 1) : time = PeriodsAfterEpoch(k)

\* C7, as claimed: at the synodic reference epoch and at every instant a
\* whole number of synodic periods after it, phase = 0, age = 0 and
\* phase_name = "New".
C7_ExactAtWholePeriods ==
    AtWholePeriods =>
        /\ F64IsZero(snap.phase)
        /\ F64IsZero(snap.age)
        /\ snap.phase_name = "New"

\* 1e-9.
RoundingSlack == F64Quot(0, <<1>>, BigPow10(9), 0)

\* Within RoundingSlack of 0 or of 1.
NearWhole(phase) ==
    \/ F64Within(phase, F64OfInt(0), RoundingSlack)
    \/ F64Within(phase, F64OfInt(1), RoundingSlack)

\* C7, amended: at the instant whose Julian date is the synodic reference
\* epoch exactly, phase = 0, age = 0 and phase_name = "New"; at an instant a
\* whole number of synodic periods after it phase_name is "New" and phase is
\* within f64 rounding (1e-9) of 0 or of 1.
C7_ExactAtEpochNearAfter ==
    /\ time = SynodicEpoch =>
           /\ snap.j_date = MOON_SYNODIC_OFFSET
           /\ F64IsZero(snap.phase)
           /\ F64IsZero(snap.age)
           /\ snap.phase_name = "New"
    /\ AtWholePeriods =>
           /\ snap.phase_name = "New"
           /\ NearWhole(snap.phase)

\* The call at the synodic reference epoch itself.
C7_Witness ==
    /\ time = SynodicEpoch
    /\ calls > 0
    /\ F64IsZero(snap.phase)
    /\ snap.phase_name = "New"

\* The number of new moons between the synodic reference epoch and j_date:
\* floor((j_date - MOON_SYNODIC_OFFSET) / MOON_SYNODIC_PERIOD).
FloorInt(x) ==
    IF x.s = 1 /\ ~F64IsZero(F64Fract(x)) THEN -F64Floor(x) - 1
    ELSE F64ToInt(F64Trunc(x))

Cycle(j_date) ==
    FloorInt(F64Div(F64Sub(j_date, MOON_SYNODIC_OFFSET), MOON_SYNODIC_PERIOD))

AgeInRange(s) ==
    /\ F64Le(F64OfInt(0), s.age)
    /\ F64Lt(s.age, MOON_SYNODIC_PERIOD)

\* Between two instants of one cycle, the later has the greater age.
AgeRises(s, t) ==
    (Cycle(s.j_date) = Cycle(t.j_date) /\ F64Lt(s.j_date, t.j_date))
        => F64Lt(s.age, t.age)

\* After a new moon crossing the age counts from that new moon: it is at
\* most the time since the earlier instant.
AgeResets(s, t) ==
    Cycle(s.j_date) < Cycle(t.j_date)
        => F64Le(t.age, F64Sub(t.j_date, s.j_date))

\* C8: as the instant advances, age stays in [0, synodic period), rises
\* strictly between two new moon crossings and drops back toward 0 at each
\* crossing, before the synodic reference epoch as well as after it.
C8_AgeCycle ==
    [][AgeInRange(snap') /\ AgeRises(snap, snap') /\ AgeResets(snap, snap')]_vars

\* C9: MoonPhase::new returns for every instant (no index out of bounds),
\* with phase_name one of the 8 labels and zodiac_name one of the 12.
C9_Total ==
    /\ snap # Unwound
    /\ snap.phase_name \in SetOf(PHASE_NAMES)
    /\ snap.zodiac_name \in SetOf(ZODIAC_NAMES)

\* A call after the synodic reference epoch with phase in [0.9375, 1),
\* where round(phase * 8) is 8, that returned "New".
C9_Witness ==
    /\ snap # Unwound
    /\ ~BeforeSynodicEpoch
    /\ F64Le(F64Lit(<<0, 937, 500>>, 6), snap.phase)
    /\ F64RoundInt(F64Mul(snap.phase, F64OfInt(8))) = F64OfInt(8)
    /\ snap.phase_name = "New"

\* C10: at or before the synodic reference epoch the index converted from
\* round(phase * 8) is 0 and phase_name is "New", wherever the Moon is in
\* its cycle.
C10_NewBeforeEpoch ==
    BeforeSynodicEpoch =>
        /\ F64Le(snap.phase, F64OfInt(0))
        /\ PhaseNameIndex(snap.phase) = 0
        /\ snap.phase_name = "New"

\* A call before the epoch with the Moon in the middle of its cycle
\* (-0.75 <= phase <= -0.5), named "New".
C10_Witness ==
    /\ BeforeSynodicEpoch
    /\ F64Le(F64Neg(F64Lit(<<0, 750>>, 3)), snap.phase)
    /\ F64Le(snap.phase, F64Neg(F64Lit(<<0, 500>>, 3)))
    /\ snap.phase_name = "New"

====
